---- MODULE Spec2Model ----
(***************************************************************************)
(* Model of the BIAN UML visualizer front end (src/puml-ui/app.js): the    *)
(* diagram selection, the loading of the diagram sources into the content  *)
(* map, the combination of several sources into one document, and the      *)
(* requests sent to the renderer endpoint /api/generate-diagram.           *)
(*                                                                         *)
(* Text is a sequence of atoms.  An atom is a piece of text that the       *)
(* regular expressions of createCombinedUML treat as a unit: the fragments *)
(* "@start", "@end" and "uml" (so that "@startuml" is the two adjacent     *)
(* atoms "@start","uml" and can be formed by joining two line fragments),  *)
(* the word "title", the line feed, and "x" for any other character.  The  *)
(* words "!define LAYOUT" occur in the sample documents only.              *)
(***************************************************************************)
EXTENDS Integers, Sequences, FiniteSets, TLC

\* ---------------------------------------------------------------- bounds
\* longest document body enumerated for the combination specification
MaxLen == 3
\* most calls to /api/generate-diagram in flight at once
MaxInFlight == 1
\* most invocations of the external renderer followed on the server
MaxCalls == 3
\* the largest number of renderUMLDiagram calls in flight at once where late
\* responses are examined
MaxRacing == 2

\* ---------------------------------------------------------------- text
NL == "\n"

Atoms == {"@start", "uml", "@end", "title", "x", NL}

\* String.prototype.trim removes these from both ends
Whitespace == {NL, " "}

startuml == <<"@start", "uml">>
enduml == <<"@end", "uml">>
titleWord == <<"title">>
defineLayout == <<"!define LAYOUT">>

\* does the text t hold the word kw at position i
MatchAt(t, kw, i) ==
    /\ i + Len(kw) - 1 <= Len(t)
    /\ \A k \in 1..Len(kw) : t[i + k - 1] = kw[k]

\* number of occurrences of the word kw in the text t
Count(t, kw) == Cardinality({i \in 1..Len(t) : MatchAt(t, kw, i)})

\* is the text p a contiguous part of the text t
Contains(t, p) == \E i \in 1..(Len(t) + 1) : MatchAt(t, p, i)

\* all texts of at most n atoms
TextsUpTo(n) == UNION {[1..k -> Atoms] : k \in 0..n}

\* content.replace(/kw[^\n]*\n?/g, ''): scanning from position i; skipping is
\* TRUE inside a match, which runs to the end of the line and takes its line feed
RECURSIVE replaceFrom(_, _, _, _)
replaceFrom(t, kw, i, skipping) ==
    IF i > Len(t) THEN <<>>
    ELSE IF skipping
         THEN replaceFrom(t, kw, i + 1, t[i] # NL)
         ELSE IF MatchAt(t, kw, i)
              THEN replaceFrom(t, kw, i + Len(kw), TRUE)
              ELSE <<t[i]>> \o replaceFrom(t, kw, i + 1, FALSE)

replace(t, kw) == replaceFrom(t, kw, 1, FALSE)

RECURSIVE trimStart(_)
trimStart(t) ==
    IF t # <<>> /\ Head(t) \in Whitespace THEN trimStart(Tail(t)) ELSE t

RECURSIVE trimEnd(_)
trimEnd(t) ==
    IF t # <<>> /\ t[Len(t)] \in Whitespace
    THEN trimEnd(SubSeq(t, 1, Len(t) - 1))
    ELSE t

trim(t) == trimEnd(trimStart(t))

\* the chain of replacements and the trim applied to one document
\* (each pass works on the value the pass before it has produced)
cleanContent(content) ==
    LET replaced(texts, kw) == {replace(t, kw) : t \in texts}
    IN  CHOOSE cleaned \in
            {trim(t) : t \in replaced(replaced(replaced(replaced({content},
                                  startuml), enduml), titleWord), defineLayout)} : TRUE

\* ---------------------------------------------------------------- catalogue
\* the first two entries of initializeDiagramConfigs
diagramConfigs ==
    << [id |-> "business_support", filename |-> "bian_business_support.puml",
        displayName |-> "Business Support"],
       [id |-> "channels", filename |-> "bian_channels.puml",
        displayName |-> "Channels"] >>

dataModelConfigs ==
    << [id |-> "deposits", filename |-> "deposits_logical_data_model.puml",
        displayName |-> "Deposits"] >>

DiagramIds == {diagramConfigs[i].id : i \in 1..Len(diagramConfigs)}

\* the key under which a data model is stored: `datamodel_${config.id}`
dataModelKey(id) == IF id = "deposits" THEN "datamodel_deposits" ELSE "datamodel_"

DataModelKeys == {dataModelKey(dataModelConfigs[i].id) : i \in 1..Len(dataModelConfigs)}

Keys == DiagramIds \cup DataModelKeys

configOf(key) ==
    IF key \in DiagramIds
    THEN CHOOSE c \in {diagramConfigs[i] : i \in 1..Len(diagramConfigs)} : c.id = key
    ELSE CHOOSE c \in {dataModelConfigs[i] : i \in 1..Len(dataModelConfigs)} :
             dataModelKey(c.id) = key

\* ---------------------------------------------------------------- content map
\* Map.get: <<text>> when the key is set, <<>> (undefined) when it is not
get(contents, key) ==
    IF key \in DOMAIN contents THEN <<contents[key]>> ELSE <<>>

\* a faulty variant of set: the map is rebuilt around the one entry
setAlone(contents, key, text) == [k \in {key} |-> text]

\* Map.set
set(contents, key, text) ==
    [k \in (DOMAIN contents) \cup {key} |-> IF k = key THEN text ELSE contents[k]]

\* Set.has on the insertion-ordered selection
has(selected, id) == \E i \in 1..Len(selected) : selected[i] = id

\* `if (value)` on a string that may be undefined
truthy(opt) == opt # <<>> /\ opt[1] # <<>>

\* ---------------------------------------------------------------- createCombinedUML
preamble ==
    startuml \o <<" Combined BIAN Diagrams", NL, NL>>
    \o titleWord \o <<" Combined BIAN Architecture Domains", NL, NL>>
    \o defineLayout \o <<" top to bottom direction", NL, NL>>

\* `' === ${config.displayName} Domain ===\n`
domainHeader(config) == <<"' === ", config.displayName, " Domain ===", NL>>

\* a faulty variant of section: the header is written whatever the cleaned body is
sectionAlwaysHeader(config, contents) ==
    LET content == get(contents, config.id)
    IN  IF truthy(content)
        THEN domainHeader(config) \o cleanContent(content[1]) \o <<NL, NL>>
        ELSE <<>>

\* a faulty variant of section: the body is written without the blank-line separator
sectionNoSeparator(config, contents) ==
    LET content == get(contents, config.id)
    IN  IF truthy(content) /\ cleanContent(content[1]) # <<>>
        THEN domainHeader(config) \o cleanContent(content[1]) \o <<NL>>
        ELSE <<>>

\* what one pass of the forEach adds to combinedUML
section(config, contents) ==
    LET content == get(contents, config.id)
    IN  IF truthy(content) /\ cleanContent(content[1]) # <<>>
        THEN domainHeader(config) \o cleanContent(content[1]) \o <<NL, NL>>
        ELSE <<>>

RECURSIVE sections(_, _)
sections(configs, contents) ==
    IF configs = <<>> THEN <<>>
    ELSE section(Head(configs), contents) \o sections(Tail(configs), contents)

\* a faulty variant of selectedConfigs: the configurations in the order of selection
RECURSIVE selectedConfigsInSelectionOrder(_)
selectedConfigsInSelectionOrder(selected) ==
    IF selected = <<>> THEN <<>>
    ELSE <<configOf(Head(selected))>> \o selectedConfigsInSelectionOrder(Tail(selected))

\* this.diagramConfigs.filter(config => this.selectedDiagrams.has(config.id))
selectedConfigs(selected) ==
    SelectSeq(diagramConfigs, LAMBDA config : has(selected, config.id))

createCombinedUML(selected, contents) ==
    preamble \o sections(selectedConfigs(selected), contents) \o enduml

\* a faulty variant of umlContent: a single selection goes through the combination too
umlContentAlwaysCombined(selected, contents) ==
    <<createCombinedUML(selected, contents)>>

\* the document visualizeSelectedDiagrams hands to renderUMLDiagram
umlContent(selected, contents) ==
    IF Len(selected) = 1
    THEN get(contents, selected[1])
    ELSE <<createCombinedUML(selected, contents)>>

\* ---------------------------------------------------------------- placeholders
\* stored for a diagram whose fetch answered with a non-success status
umlLoadFailed(config) ==
    startuml \o <<NL>> \o titleWord \o <<" Error Loading ", config.displayName, NL,
      "note \"Could not load UML file: ", config.filename, "\" as N1", NL>> \o enduml

\* stored for a diagram whose fetch (or the reading of its text) threw
umlLoadError(config, message) ==
    startuml \o <<NL>> \o titleWord \o <<" Error Loading ", config.displayName, NL,
      "note \"Error: ", message, "\" as N1", NL>> \o enduml

dataModelLoadFailed(config) ==
    <<"@startmindmap", NL, "* Error Loading ", config.displayName, NL,
      "** Could not load file: ", config.filename, NL, "@endmindmap">>

dataModelLoadError(config, message) ==
    <<"@startmindmap", NL, "* Error Loading ", config.displayName, NL,
      "** Error: ", message, NL, "@endmindmap">>

\* ---------------------------------------------------------------- environment
\* the spec's sample document "@startuml\ntitle X\nA -> B\n@enduml"
SampleDocument == startuml \o <<NL, "title", "x", NL, "x", NL>> \o enduml

\* a document that has markers, a layout definition and a title and nothing else
MarkersOnly ==
    startuml \o <<NL>> \o defineLayout \o <<"x", NL, "title", "x", NL>> \o enduml

\* a document in which removing the title line joins "@start" and "uml"
JoinedMarker == <<"@start", "title", NL, "uml", NL, "x">>

\* the documents set beside the enumerated one in the combination specification
SampleTexts == {SampleDocument, MarkersOnly, JoinedMarker}

\* the texts a file of the content source can hold
FileTexts == {<<>>, SampleDocument}

\* non-success statuses of the content source and of the renderer
FailureStatuses == {404}

\* messages of a fetch that throws
FetchErrors == {"Failed to fetch"}

\* the formats /api/generate-diagram renders, and formats it does not
SupportedFormats == {"png", "svg"}
Formats == SupportedFormats \cup {"pdf"}

\* the content type of an image of the format
contentTypeOf(format) ==
    IF format = "png" THEN "image/png"
    ELSE IF format = "svg" THEN "image/svg+xml"
    ELSE "application/json"

\* the answer to a request the server refuses for its format
unsupportedFormat ==
    [kind |-> "fail", error |-> "Unsupported format", status |-> 400,
     contentType |-> "application/json"]

\* a faulty variant of invokesRenderer: the format is looked at after the call
invokesRendererFirst(format) == TRUE

\* does /api/generate-diagram call the external renderer for the format
invokesRenderer(format) == format \in SupportedFormats

\* a faulty variant of imageOf: every image is served as a PNG
imageAlwaysPng(format) ==
    [kind |-> "ok", error |-> "", status |-> 200, contentType |-> "image/png"]

\* the answer that carries the image of the format
imageOf(format) ==
    [kind |-> "ok", error |-> "", status |-> 200,
     contentType |-> contentTypeOf(format)]

\* the answers of the server when the external renderer fails: with the
\* renderer's own message, or without one
RendererFailures ==
    { [kind |-> "fail", error |-> "PlantUML generation failed", status |-> 500,
       contentType |-> "application/json"],
      [kind |-> "fail", error |-> "", status |-> 500,
       contentType |-> "application/json"] }

\* what /api/generate-diagram can answer to a document and a format
generateDiagram(text, format) ==
    IF invokesRenderer(format)
    THEN {imageOf(format)} \cup RendererFailures
    ELSE {unsupportedFormat}

\* no answer at all: the fetch throws
fetchRejected ==
    [kind |-> "reject", error |-> "Failed to fetch", status |-> 0, contentType |-> ""]

\* what a fetch of /api/generate-diagram can end with
RenderOutcomes ==
    UNION {generateDiagram(<<>>, format) : format \in Formats} \cup {fetchRejected}

\* what the fetch of the request can end with
answers(req) ==
    generateDiagram(req.uml_content, req.format) \cup {fetchRejected}

\* `Server error: ${response.status}`
serverError(status) == IF status = 500 THEN "Server error: 500" ELSE "Server error"

\* ---------------------------------------------------------------- state
VARIABLES
    selectedDiagrams,            \* the Set of selected ids, in insertion order
    umlContents,                 \* the Map from key to document text
    loadPc,                      \* per key, where its loading closure stands
    fetched,                     \* per key, what the content source answered
    initPc,                      \* where init() stands
    requests,                    \* calls to /api/generate-diagram in flight
    visualizationArea,           \* what the diagram area shows
    dataModelVisualizationArea,  \* what the data model area shows
    justCompleted,               \* the render operation the last step ended, if any
    healthPc,                    \* where checkServerHealth() stands
    serverStatus,                \* the text of the .server-status element
    rendererCalls,               \* server: invocations of the external renderer
    apiResult,                   \* server: the last answer of /api/generate-diagram
    selectionUI,                 \* what updateSelectionUI has written, if it has run
    toggledOdd,                  \* the ids toggled an odd number of times since the
                                 \* last clearSelection
    port7777,                    \* per process, whether and how it holds port 7777
    startSh,                     \* where the startup script stands
    stopSh                       \* where the stop script stands

vars == <<selectedDiagrams, umlContents, loadPc, fetched, initPc, requests,
          visualizationArea, dataModelVisualizationArea, justCompleted,
          healthPc, serverStatus, rendererCalls, apiResult, selectionUI,
          toggledOdd, port7777, startSh, stopSh>>

\* the selection with what is derived from it, and the state of the two scripts
selection == <<selectedDiagrams, selectionUI, toggledOdd>>
scripts == <<port7777, startSh, stopSh>>

\* the processes that can hold port 7777: the server a run of the startup
\* script starts, and processes that are there when a script is run
Procs == {"app.py", "previous", "other"}

\* a script that has not been run
NotStarted == [pc |-> "idle", PIDS |-> {}, status |-> -1, out |-> <<>>, sent |-> <<>>]

\* the state of the readiness check, and the state kept by the server
health == <<healthPc, serverStatus>>
server == <<rendererCalls, apiResult>>

NotFetched == [kind |-> "none", text |-> <<>>, status |-> 0, message |-> ""]

\* the views of a visualization area
placeholderView == [view |-> "placeholder", umlContent |-> <<>>, message |-> ""]
spinnerView == [view |-> "spinner", umlContent |-> <<>>, message |-> ""]
diagramView(content) == [view |-> "diagram", umlContent |-> content, message |-> ""]
errorView(message) == [view |-> "error", umlContent |-> <<>>, message |-> message]

\* JSON.stringify({uml_content, format}): an undefined uml_content leaves the key out;
\* with it, the operation that awaits the answer, the fetches it has issued, and
\* whether a call of the same operation issued after it has settled before it
request(op, content, format) ==
    [op |-> op, uml_content |-> content, format |-> format,
     state |-> "Submitting", calls |-> 1, overtaken |-> FALSE]

\* the operations that save a file instead of showing a diagram
Downloads == {"downloadAsSVG", "downloadDataModelAsSVG"}

\* the sequence s without its i-th element
RemoveAt(s, i) == SubSeq(s, 1, i - 1) \o SubSeq(s, i + 1, Len(s))

\* ---------------------------------------------------------------- loading
\* a faulty variant of notOk: the else branch only logs
notOkLogsOnly(contents, key) == contents

\* the else branch of a loading closure: the fetch answered, but not ok
notOk(contents, key) ==
    set(contents, key,
        IF key \in DiagramIds THEN umlLoadFailed(configOf(key))
                              ELSE dataModelLoadFailed(configOf(key)))

\* a faulty variant of caught: the closure has no try/catch and rejects
uncaught(contents, key, message) == [pc |-> "rejected", contents |-> contents]

\* a faulty variant of caught: the catch fetches the file once more
caughtRefetches(contents, key, message) == [pc |-> "fetching", contents |-> contents]

\* the catch block of a loading closure
caught(contents, key, message) ==
    [pc |-> "done",
     contents |-> set(contents, key,
        IF key \in DiagramIds THEN umlLoadError(configOf(key), message)
                              ELSE dataModelLoadError(configOf(key), message))]

\* await fetch(...) of the closure of `key` answers with response.ok
fetchOk(key) ==
    /\ loadPc[key] = "fetching"
    /\ loadPc' = [loadPc EXCEPT ![key] = "reading"]
    /\ fetched' = [fetched EXCEPT ![key] = [NotFetched EXCEPT !.kind = "ok"]]
    /\ justCompleted' = <<>>
    /\ UNCHANGED <<scripts, health, server, selection, umlContents, initPc, requests,
                   visualizationArea, dataModelVisualizationArea>>

\* await fetch(...) answers with a non-success status
fetchNotOk(key, status) ==
    /\ loadPc[key] = "fetching"
    /\ umlContents' = notOk(umlContents, key)
    /\ loadPc' = [loadPc EXCEPT ![key] = "done"]
    /\ fetched' = [fetched EXCEPT ![key] =
                      [NotFetched EXCEPT !.kind = "status", !.status = status]]
    /\ justCompleted' = <<>>
    /\ UNCHANGED <<scripts, health, server, selection, initPc, requests,
                   visualizationArea, dataModelVisualizationArea>>

\* await fetch(...) throws
fetchThrows(key, message) ==
    /\ loadPc[key] = "fetching"
    /\ umlContents' = caught(umlContents, key, message).contents
    /\ loadPc' = [loadPc EXCEPT ![key] = caught(umlContents, key, message).pc]
    /\ fetched' = [fetched EXCEPT ![key] =
                      [NotFetched EXCEPT !.kind = "error", !.message = message]]
    /\ justCompleted' = <<>>
    /\ UNCHANGED <<scripts, health, server, selection, initPc, requests,
                   visualizationArea, dataModelVisualizationArea>>

\* await response.text() yields the text of the file
textRead(key, text) ==
    /\ loadPc[key] = "reading"
    /\ umlContents' = set(umlContents, key, text)
    /\ loadPc' = [loadPc EXCEPT ![key] = "done"]
    /\ fetched' = [fetched EXCEPT ![key] =
                      [NotFetched EXCEPT !.kind = "text", !.text = text]]
    /\ justCompleted' = <<>>
    /\ UNCHANGED <<scripts, health, server, selection, initPc, requests,
                   visualizationArea, dataModelVisualizationArea>>

\* await response.text() throws
textThrows(key, message) ==
    /\ loadPc[key] = "reading"
    /\ umlContents' = caught(umlContents, key, message).contents
    /\ loadPc' = [loadPc EXCEPT ![key] = caught(umlContents, key, message).pc]
    /\ fetched' = [fetched EXCEPT ![key] =
                      [NotFetched EXCEPT !.kind = "error", !.message = message]]
    /\ justCompleted' = <<>>
    /\ UNCHANGED <<scripts, health, server, selection, initPc, requests,
                   visualizationArea, dataModelVisualizationArea>>

\* Promise.all(loadPromises) is settled: it rejects as soon as one closure has
\* rejected and is fulfilled once every closure is
settled(keys) ==
    \/ \E k \in keys : loadPc[k] = "rejected"
    \/ \A k \in keys : loadPc[k] = "done"

\* await Promise.all(loadPromises) of loadAllUMLContents returns and init() goes on
\* into loadAllDataModelContents, which issues its fetches
loadAllUMLContents ==
    /\ initPc = "loadAllUMLContents"
    /\ settled(DiagramIds)
    /\ IF \E k \in DiagramIds : loadPc[k] = "rejected"
       THEN /\ initPc' = "rejected"
            /\ UNCHANGED loadPc
       ELSE /\ initPc' = "loadAllDataModelContents"
            /\ loadPc' = [k \in Keys |-> IF k \in DataModelKeys THEN "fetching"
                                                              ELSE loadPc[k]]
    /\ justCompleted' = <<>>
    /\ UNCHANGED <<scripts, health, server, selection, umlContents, fetched, requests,
                   visualizationArea, dataModelVisualizationArea>>

\* await Promise.all(loadPromises) of loadAllDataModelContents returns
loadAllDataModelContents ==
    /\ initPc = "loadAllDataModelContents"
    /\ settled(DataModelKeys)
    /\ initPc' = IF \E k \in DataModelKeys : loadPc[k] = "rejected"
                 THEN "rejected" ELSE "initialized"
    /\ justCompleted' = <<>>
    /\ UNCHANGED <<scripts, health, server, selection, umlContents, loadPc, fetched, requests,
                   visualizationArea, dataModelVisualizationArea>>

\* ---------------------------------------------------------------- selection
\* a faulty variant of toggled: the id is added without looking for it
toggledAlwaysAdded(selected, diagramId) == Append(selected, diagramId)

\* the selection after a click on the button of diagramId: Set.delete or Set.add
toggled(selected, diagramId) ==
    IF has(selected, diagramId)
    THEN SelectSeq(selected, LAMBDA id : id # diagramId)
    ELSE Append(selected, diagramId)

\* a faulty variant of updateSelectionUI: the button is left as it was made, enabled
updateSelectionUICountOnly(selected) ==
    <<[selectedCount |-> Len(selected), visualizeBtnDisabled |-> FALSE]>>

\* what updateSelectionUI writes for the selection: the text of #selectedCount and
\* the disabled property of #visualizeBtn
updateSelectionUI(selected) ==
    <<[selectedCount |-> Len(selected), visualizeBtnDisabled |-> Len(selected) = 0]>>

toggleDiagramSelection(diagramId) ==
    /\ selectedDiagrams' = toggled(selectedDiagrams, diagramId)
    /\ selectionUI' = updateSelectionUI(selectedDiagrams')
    /\ toggledOdd' = IF diagramId \in toggledOdd THEN toggledOdd \ {diagramId}
                                                 ELSE toggledOdd \cup {diagramId}
    /\ justCompleted' = <<>>
    /\ UNCHANGED <<scripts, health, server, umlContents, loadPc, fetched, initPc,
                   requests, visualizationArea, dataModelVisualizationArea>>

\* a faulty variant of clearSelection: clearVisualization is not called
clearSelectionOnly ==
    /\ selectedDiagrams' = <<>>
    /\ selectionUI' = updateSelectionUI(selectedDiagrams')
    /\ toggledOdd' = {}
    /\ justCompleted' = <<>>
    /\ UNCHANGED <<scripts, health, server, umlContents, loadPc, fetched, initPc,
                   requests, visualizationArea, dataModelVisualizationArea>>

\* clearSelection, with the updateSelectionUI and the clearVisualization it ends with
clearSelection ==
    /\ selectedDiagrams' = <<>>
    /\ selectionUI' = updateSelectionUI(selectedDiagrams')
    /\ toggledOdd' = {}
    /\ visualizationArea' = placeholderView
    /\ justCompleted' = <<>>
    /\ UNCHANGED <<scripts, health, server, umlContents, loadPc, fetched, initPc,
                   requests, dataModelVisualizationArea>>

\* ---------------------------------------------------------------- rendering
\* the message of the Error thrown for an answer of the renderer endpoint:
\* errorData.error || `Server error: ${response.status}`, or the fetch's own error
errorMessage(outcome) ==
    IF outcome.kind = "fail" /\ outcome.error = ""
    THEN serverError(outcome.status)
    ELSE outcome.error

\* a faulty variant of visualizeSelectedDiagrams: it waits for a readiness check
\* that found every prerequisite
visualizeWhenReady ==
    /\ healthPc = "done"
    /\ serverStatus \in {"Local PlantUML: Ready", "PlantUML + homebrew GraphViz: Ready"}
    /\ Len(selectedDiagrams) # 0
    /\ Len(requests) < MaxInFlight
    /\ visualizationArea' = spinnerView
    /\ requests' = Append(requests,
          request("renderUMLDiagram", umlContent(selectedDiagrams, umlContents), "png"))
    /\ justCompleted' = <<>>
    /\ UNCHANGED <<scripts, health, server, selection, umlContents, loadPc, fetched,
                   initPc, dataModelVisualizationArea>>

\* a faulty variant of visualizeSelectedDiagrams: the document it has built is
\* kept in the content map
visualizeAndStore ==
    /\ Len(selectedDiagrams) # 0
    /\ Len(requests) < MaxInFlight
    /\ visualizationArea' = spinnerView
    /\ requests' = Append(requests,
          request("renderUMLDiagram", umlContent(selectedDiagrams, umlContents), "png"))
    /\ umlContents' =
          IF Len(selectedDiagrams) > 1
          THEN set(umlContents, selectedDiagrams[1],
                   createCombinedUML(selectedDiagrams, umlContents))
          ELSE umlContents
    /\ justCompleted' = <<>>
    /\ UNCHANGED <<scripts, health, server, selection, loadPc, fetched, initPc,
                   dataModelVisualizationArea>>

\* visualizeSelectedDiagrams up to the fetch of renderUMLDiagram
visualizeSelectedDiagrams ==
    /\ Len(selectedDiagrams) # 0
    /\ Len(requests) < MaxInFlight
    /\ visualizationArea' = spinnerView
    /\ requests' = Append(requests,
          request("renderUMLDiagram", umlContent(selectedDiagrams, umlContents), "png"))
    /\ justCompleted' = <<>>
    /\ UNCHANGED <<scripts, health, server, selection, umlContents, loadPc, fetched, initPc,
                   dataModelVisualizationArea>>

\* a click on 'Visualize' that does not wait for the calls of earlier clicks:
\* visualizeSelectedDiagrams up to the fetch of renderUMLDiagram, with up to
\* MaxRacing calls in flight
visualizeSelectedDiagramsRacing ==
    /\ Len(selectedDiagrams) # 0
    /\ Len(requests) < MaxRacing
    /\ visualizationArea' = spinnerView
    /\ requests' = Append(requests,
          request("renderUMLDiagram", umlContent(selectedDiagrams, umlContents), "png"))
    /\ justCompleted' = <<>>
    /\ UNCHANGED <<scripts, health, server, selection, umlContents, loadPc, fetched, initPc,
                   dataModelVisualizationArea>>

\* what the operation tells the user when its fetch has ended with the outcome:
\* nothing, the message in the error view, or the message in the alert
reported(req, outcome) ==
    IF outcome.kind = "ok" THEN ""
    ELSE IF req.op \in Downloads /\ outcome.kind = "fail" THEN "Failed to generate SVG"
    ELSE errorMessage(outcome)

\* a faulty variant of stateOf: only an answer of the server ends the operation
stateOfAnswered(outcome) ==
    IF outcome.kind = "ok" THEN "Succeeded"
    ELSE IF outcome.kind = "fail" THEN "Failed"
    ELSE "Submitting"

\* how the operation ends: its try block runs to its end, or its catch runs
stateOf(outcome) == IF outcome.kind = "ok" THEN "Succeeded" ELSE "Failed"

\* the operation of the request, ended by the outcome of its fetch
completed(req, outcome) ==
    [op |-> req.op, format |-> req.format, calls |-> req.calls, outcome |-> outcome,
     state |-> stateOf(outcome), message |-> reported(req, outcome)]

\* a faulty variant of shown: response.ok is not looked at
shownUnchecked(req, outcome) ==
    IF outcome.kind # "reject" THEN diagramView(req.uml_content)
                               ELSE errorView(errorMessage(outcome))

\* what the area shows once the fetch has ended: the diagram with its download
\* buttons, or the error view
shown(req, outcome) ==
    IF outcome.kind = "ok" THEN diagramView(req.uml_content)
                           ELSE errorView(errorMessage(outcome))

\* a faulty variant of renderUMLDiagram: a failed fetch is issued once more
renderUMLDiagramRetrying(i, outcome) ==
    /\ i \in 1..Len(requests)
    /\ requests[i].op = "renderUMLDiagram"
    /\ outcome \in answers(requests[i])
    /\ IF outcome.kind = "ok"
       THEN /\ requests' = RemoveAt(requests, i)
            /\ justCompleted' = <<completed(requests[i], outcome)>>
            /\ visualizationArea' = shown(requests[i], outcome)
       ELSE /\ requests' = [requests EXCEPT ![i].calls = 2]
            /\ justCompleted' = <<>>
            /\ UNCHANGED visualizationArea
    /\ UNCHANGED <<scripts, health, server, selection, umlContents, loadPc, fetched,
                   initPc, dataModelVisualizationArea>>

\* the calls left in flight when the i-th has settled; those of the same
\* operation that were issued before it are marked as overtaken (a record of
\* the order of events, which the program does not keep)
fetchSettled(reqs, i) ==
    RemoveAt([j \in 1..Len(reqs) |->
                 IF j < i /\ reqs[j].op = reqs[i].op
                 THEN [reqs[j] EXCEPT !.overtaken = TRUE] ELSE reqs[j]], i)

\* the fetch of renderUMLDiagram is settled: the diagram with its download
\* buttons, or the error view (written by renderUMLDiagram's catch and again by
\* the catch of visualizeSelectedDiagrams)
renderUMLDiagram(i, outcome) ==
    /\ i \in 1..Len(requests)
    /\ requests[i].op = "renderUMLDiagram"
    /\ outcome \in answers(requests[i])
    /\ requests' = fetchSettled(requests, i)
    /\ justCompleted' = <<completed(requests[i], outcome)>>
    /\ visualizationArea' = shown(requests[i], outcome)
    /\ UNCHANGED <<scripts, health, server, selection, umlContents, loadPc, fetched,
                   initPc, dataModelVisualizationArea>>

\* a faulty variant of downloadAsSVG: the document is built again from what is
\* selected at the click
downloadCurrentSelection ==
    /\ visualizationArea.view = "diagram"
    /\ Len(requests) < MaxInFlight
    /\ requests' = Append(requests,
          request("downloadAsSVG", umlContent(selectedDiagrams, umlContents), "svg"))
    /\ justCompleted' = <<>>
    /\ UNCHANGED <<scripts, health, server, selection, umlContents, loadPc, fetched,
                   initPc, visualizationArea, dataModelVisualizationArea>>

\* a click on 'Download as SVG' under a displayed diagram: downloadAsSVG up to
\* its fetch, with the umlContent the button was created for
downloadAsSVG ==
    /\ visualizationArea.view = "diagram"
    /\ Len(requests) < MaxInFlight
    /\ requests' = Append(requests,
          request("downloadAsSVG", visualizationArea.umlContent, "svg"))
    /\ justCompleted' = <<>>
    /\ UNCHANGED <<scripts, health, server, selection, umlContents, loadPc, fetched, initPc,
                   visualizationArea, dataModelVisualizationArea>>

\* the fetch of downloadAsSVG (or of downloadDataModelAsSVG) is settled: the file
\* is saved or an alert is shown
downloadSettled(i, outcome) ==
    /\ i \in 1..Len(requests)
    /\ requests[i].op \in Downloads
    /\ outcome \in answers(requests[i])
    /\ requests' = RemoveAt(requests, i)
    /\ justCompleted' = <<completed(requests[i], outcome)>>
    /\ UNCHANGED <<scripts, health, server, selection, umlContents, loadPc, fetched,
                   initPc, visualizationArea, dataModelVisualizationArea>>

\* visualizeDataModel up to the fetch of renderDataModelDiagram, or to its own
\* catch when the content is not there
visualizeDataModel(dataModelId) ==
    LET content == get(umlContents, dataModelKey(dataModelId))
    IN  IF ~truthy(content)
        THEN /\ dataModelVisualizationArea' = errorView("Data model content not found")
             /\ justCompleted' = <<>>
             /\ UNCHANGED <<scripts, health, server, selection, umlContents, loadPc, fetched, initPc,
                            requests, visualizationArea>>
        ELSE /\ Len(requests) < MaxInFlight
             /\ dataModelVisualizationArea' = spinnerView
             /\ requests' = Append(requests,
                   request("renderDataModelDiagram", content, "png"))
             /\ justCompleted' = <<>>
             /\ UNCHANGED <<scripts, health, server, selection, umlContents, loadPc, fetched, initPc,
                            visualizationArea>>

\* the fetch of renderDataModelDiagram is settled
renderDataModelDiagram(i, outcome) ==
    /\ i \in 1..Len(requests)
    /\ requests[i].op = "renderDataModelDiagram"
    /\ outcome \in answers(requests[i])
    /\ requests' = RemoveAt(requests, i)
    /\ justCompleted' = <<completed(requests[i], outcome)>>
    /\ dataModelVisualizationArea' = shown(requests[i], outcome)
    /\ UNCHANGED <<scripts, health, server, selection, umlContents, loadPc, fetched,
                   initPc, visualizationArea>>

\* a click on 'Download as SVG' under a displayed data model
downloadDataModelAsSVG ==
    /\ dataModelVisualizationArea.view = "diagram"
    /\ Len(requests) < MaxInFlight
    /\ requests' = Append(requests,
          request("downloadDataModelAsSVG", dataModelVisualizationArea.umlContent, "svg"))
    /\ justCompleted' = <<>>
    /\ UNCHANGED <<scripts, health, server, selection, umlContents, loadPc, fetched, initPc,
                   visualizationArea, dataModelVisualizationArea>>

\* ---------------------------------------------------------------- readiness
\* updateSystemStatus has not written the .server-status element
initialStatus == ""

\* what GET /health can report
Healths ==
    [java_available : BOOLEAN, plantuml_jar_exists : BOOLEAN,
     graphviz_available : BOOLEAN, graphviz_installations : {<<>>, <<"homebrew">>}]

\* the statusText of updateSystemStatus
statusText(h) ==
    IF ~h.java_available THEN "Java: Not Available"
    ELSE IF ~h.plantuml_jar_exists THEN "PlantUML: Jar Missing"
    ELSE IF ~h.graphviz_available THEN "GraphViz: Not Found"
    ELSE IF Len(h.graphviz_installations) > 0 THEN "PlantUML + homebrew GraphViz: Ready"
    ELSE "Local PlantUML: Ready"

\* the fetch of checkServerHealth is answered and its JSON is read
checkServerHealth(h) ==
    /\ healthPc = "fetching"
    /\ healthPc' = "done"
    /\ serverStatus' = statusText(h)
    /\ justCompleted' = <<>>
    /\ UNCHANGED <<scripts, server, selection, umlContents, loadPc,
                   fetched, initPc, requests, visualizationArea,
                   dataModelVisualizationArea>>

\* the fetch of checkServerHealth, or the reading of its JSON, throws: the catch logs
checkServerHealthFails ==
    /\ healthPc = "fetching"
    /\ healthPc' = "caught"
    /\ justCompleted' = <<>>
    /\ UNCHANGED <<scripts, serverStatus, server, selection, umlContents,
                   loadPc, fetched, initPc, requests, visualizationArea,
                   dataModelVisualizationArea>>

\* ---------------------------------------------------------------- specification
\* the state the constructor leaves: init() has run up to its first await, inside
\* loadAllUMLContents, with the fetch of every diagram issued
Init ==
    /\ selectedDiagrams = <<>>
    /\ umlContents = << >>
    /\ loadPc = [k \in Keys |-> IF k \in DiagramIds THEN "fetching" ELSE "idle"]
    /\ fetched = [k \in Keys |-> NotFetched]
    /\ initPc = "loadAllUMLContents"
    /\ requests = <<>>
    /\ visualizationArea = placeholderView
    /\ dataModelVisualizationArea = placeholderView
    /\ justCompleted = <<>>
    /\ healthPc = "fetching"
    /\ serverStatus = initialStatus
    /\ rendererCalls = 0
    /\ apiResult = <<>>
    /\ selectionUI = <<>>
    /\ toggledOdd = {}
    /\ port7777 = [p \in Procs |-> "absent"]
    /\ startSh = NotStarted
    /\ stopSh = NotStarted

Load ==
    \/ \E key \in Keys : fetchOk(key)
    \/ \E key \in Keys, status \in FailureStatuses : fetchNotOk(key, status)
    \/ \E key \in Keys, message \in FetchErrors : fetchThrows(key, message)
    \/ \E key \in Keys, text \in FileTexts : textRead(key, text)
    \/ \E key \in Keys, message \in FetchErrors : textThrows(key, message)
    \/ loadAllUMLContents
    \/ loadAllDataModelContents

\* the handlers of the diagram tab
DiagramTab ==
    \/ \E id \in DiagramIds : toggleDiagramSelection(id)
    \/ clearSelection
    \/ visualizeSelectedDiagrams
    \/ \E i \in 1..MaxInFlight, outcome \in RenderOutcomes : renderUMLDiagram(i, outcome)

\* the download button under a displayed diagram
DownloadButton ==
    \/ downloadAsSVG
    \/ \E i \in 1..MaxInFlight, outcome \in RenderOutcomes : downloadSettled(i, outcome)

\* checkServerHealth, which checkLibrarySupport starts and nothing awaits
Readiness ==
    \/ \E h \in Healths : checkServerHealth(h)
    \/ checkServerHealthFails

\* the handlers of the data model tab
DataModelTab ==
    \/ \E i \in 1..MaxInFlight, outcome \in RenderOutcomes : downloadSettled(i, outcome)
    \/ \E i \in 1..Len(dataModelConfigs) : visualizeDataModel(dataModelConfigs[i].id)
    \/ \E i \in 1..MaxInFlight, outcome \in RenderOutcomes :
          renderDataModelDiagram(i, outcome)
    \/ downloadDataModelAsSVG

\* The two tabs share the content map, which only the loads write, and nothing
\* else: each tab is checked together with the loads, and the diagram tab once
\* more, after the loads, with its download button and the readiness check.
Next == Load \/ DiagramTab

Spec == Init /\ [][Next]_vars

NextDataModel == Load \/ DataModelTab

SpecDataModel == Init /\ [][NextDataModel]_vars

\* what a finished load can have left for a diagram: its stored text and what
\* the content source had answered
LoadResults(key) ==
    {[text |-> t, fetched |-> [NotFetched EXCEPT !.kind = "text", !.text = t]] :
        t \in FileTexts}
    \cup {[text |-> notOk(<< >>, key)[key],
           fetched |-> [NotFetched EXCEPT !.kind = "status", !.status = status]] :
        status \in FailureStatuses}

\* the state once init() has returned, the readiness check still unanswered
InitLoaded ==
    /\ selectedDiagrams = <<>>
    /\ \E results \in [Keys -> UNION {LoadResults(k) : k \in Keys}] :
          /\ \A k \in Keys : results[k] \in LoadResults(k)
          /\ umlContents = [k \in Keys |-> results[k].text]
          /\ fetched = [k \in Keys |-> results[k].fetched]
    /\ loadPc = [k \in Keys |-> "done"]
    /\ initPc = "initialized"
    /\ requests = <<>>
    /\ visualizationArea = placeholderView
    /\ dataModelVisualizationArea = placeholderView
    /\ justCompleted = <<>>
    /\ healthPc = "fetching"
    /\ serverStatus = initialStatus
    /\ rendererCalls = 0
    /\ apiResult = <<>>
    /\ selectionUI = <<>>
    /\ toggledOdd = {}
    /\ port7777 = [p \in Procs |-> "absent"]
    /\ startSh = NotStarted
    /\ stopSh = NotStarted

NextRender == DiagramTab \/ DownloadButton \/ Readiness

SpecRender == InitLoaded /\ [][NextRender]_vars

\* ---------------------------------------------------------------- late responses
\* 'Visualize' is clicked again while the calls of earlier clicks are in flight,
\* and the responses arrive in any order
NextRace ==
    \/ \E id \in DiagramIds : toggleDiagramSelection(id)
    \/ visualizeSelectedDiagramsRacing
    \/ \E i \in 1..MaxRacing, outcome \in RenderOutcomes : renderUMLDiagram(i, outcome)

SpecRace == InitLoaded /\ [][NextRace]_vars

\* ---------------------------------------------------------------- server
\* POST /api/generate-diagram handles a request body
apiGenerateDiagram(text, format, result) ==
    /\ rendererCalls < MaxCalls
    /\ result \in generateDiagram(text, format)
    /\ rendererCalls' = rendererCalls + (IF invokesRenderer(format) THEN 1 ELSE 0)
    /\ apiResult' = <<[uml_content |-> text, format |-> format, result |-> result]>>
    /\ justCompleted' = <<>>
    /\ UNCHANGED <<scripts, health, selection, umlContents, loadPc, fetched, initPc,
                   requests, visualizationArea, dataModelVisualizationArea>>

\* the endpoint on its own, called by any client with any body
NextServer ==
    \E text \in TextsUpTo(1) \cup SampleTexts, format \in Formats,
       result \in RenderOutcomes : apiGenerateDiagram(text, format, result)

SpecServer == Init /\ [][NextServer]_vars

\* ---------------------------------------------------------------- combination
\* The combination of documents, checked over every body of at most MaxLen atoms:
\* the state after a load in which one diagram's file held an arbitrary body and
\* the other files held one of the sample texts.
InitCombine ==
    /\ selectedDiagrams = <<>>
    /\ \E varied \in DiagramIds, body \in TextsUpTo(MaxLen),
          other \in SampleTexts :
          umlContents = [k \in Keys |-> IF k = varied THEN body
                                        ELSE IF k \in DiagramIds THEN other
                                        ELSE SampleDocument]
    /\ loadPc = [k \in Keys |-> "done"]
    /\ fetched = [k \in Keys |-> [NotFetched EXCEPT !.kind = "text",
                                                    !.text = umlContents[k]]]
    /\ initPc = "initialized"
    /\ requests = <<>>
    /\ visualizationArea = placeholderView
    /\ dataModelVisualizationArea = placeholderView
    /\ justCompleted = <<>>
    /\ healthPc = "fetching"
    /\ serverStatus = initialStatus
    /\ rendererCalls = 0
    /\ apiResult = <<>>
    /\ selectionUI = <<>>
    /\ toggledOdd = {}
    /\ port7777 = [p \in Procs |-> "absent"]
    /\ startSh = NotStarted
    /\ stopSh = NotStarted

\* the selection is made in every order and visualizeSelectedDiagrams applies
\* createCombinedUML to it
NextCombine ==
    \/ \E id \in DiagramIds : toggleDiagramSelection(id)
    \/ visualizeSelectedDiagrams

SpecCombine == InitCombine /\ [][NextCombine]_vars

\* ---------------------------------------------------------------- scripts
\* lsof -ti:7777: the processes that hold the port
lsof(port) == {p \in Procs : port[p] # "absent"}

\* kill -<signal> of the pids: the signal is pending on those that still run,
\* and a pending SIGKILL stays
kill(signal, pids, port) ==
    [p \in Procs |-> IF p \in pids /\ port[p] \notin {"absent", "KILL"}
                     THEN signal ELSE port[p]]

\* the script with the signal it has sent to the pids
sending(sh, signal, pids) ==
    [sh EXCEPT !.sent = Append(@, [signal |-> signal, to |-> pids])]

\* the script after echo of the message
echo(sh, message) == [sh EXCEPT !.out = Append(@, message)]

\* the script after exit with the status
exit(sh, status) == [sh EXCEPT !.pc = "exited", !.status = status]

\* what is not touched by the scripts: the page in the browser and the server
page == <<health, server, selection, umlContents, loadPc, fetched, initPc, requests,
          visualizationArea, dataModelVisualizationArea, justCompleted>>

\* a signalled process ends
exits(p) ==
    /\ port7777[p] \in {"TERM", "KILL"}
    /\ port7777' = [port7777 EXCEPT ![p] = "absent"]
    /\ UNCHANGED <<startSh, stopSh, page>>

\* a process other than the server of this run of the startup script takes the
\* port
binds(p) ==
    /\ p # "app.py"
    /\ lsof(port7777) = {}
    /\ port7777' = [port7777 EXCEPT ![p] = "listening"]
    /\ UNCHANGED <<startSh, stopSh, page>>

\* a faulty variant of kill_port_7777: the processes are killed and nothing is
\* looked at after the wait
killPortUnchecked ==
    /\ startSh.pc = "idle"
    /\ LET PIDS == lsof(port7777)
       IN  IF PIDS # {}
           THEN /\ startSh' = echo(sending([startSh EXCEPT !.pc = "check_python",
                                                           !.PIDS = PIDS],
                                           "KILL", PIDS),
                                   "Successfully killed existing processes")
                /\ port7777' = kill("KILL", PIDS, port7777)
           ELSE /\ startSh' = echo([startSh EXCEPT !.pc = "check_python"],
                                   "No existing processes found on port 7777")
                /\ UNCHANGED port7777
    /\ UNCHANGED <<stopSh, page>>

\* main of the startup script up to the sleep of kill_port_7777, or through
\* kill_port_7777 when nothing holds the port
kill_port_7777 ==
    /\ startSh.pc = "idle"
    /\ LET PIDS == lsof(port7777)
       IN  IF PIDS # {}
           THEN /\ startSh' = sending([startSh EXCEPT !.pc = "sleep 2", !.PIDS = PIDS],
                                      "KILL", PIDS)
                /\ port7777' = kill("KILL", PIDS, port7777)
           ELSE /\ startSh' = echo([startSh EXCEPT !.pc = "check_python"],
                                   "No existing processes found on port 7777")
                /\ UNCHANGED port7777
    /\ UNCHANGED <<stopSh, page>>

\* kill_port_7777 after its sleep: the port is looked at again
killPortRemaining ==
    /\ startSh.pc = "sleep 2"
    /\ LET REMAINING == lsof(port7777)
       IN  startSh' =
              IF REMAINING # {}
              THEN exit(echo(startSh, "Failed to kill some processes"), 1)
              ELSE echo([startSh EXCEPT !.pc = "check_python"],
                        "Successfully killed existing processes")
    /\ UNCHANGED <<port7777, stopSh, page>>

\* check_python, with whether python3 and pip3 are found
check_python(python3, pip3) ==
    /\ startSh.pc = "check_python"
    /\ startSh' =
          IF ~python3 THEN exit(echo(startSh, "Python3 not found"), 1)
          ELSE IF ~pip3 THEN exit(echo(startSh, "pip3 not found"), 1)
          ELSE echo([startSh EXCEPT !.pc = "install_dependencies"], "pip3 is available")
    /\ UNCHANGED <<port7777, stopSh, page>>

\* a faulty variant of install_dependencies: a failed installation is reported
\* and the script goes on
installDependenciesAndGoOn(requirements, installed) ==
    /\ startSh.pc = "install_dependencies"
    /\ startSh' =
          IF ~requirements THEN exit(echo(startSh, "requirements.txt not found"), 1)
          ELSE IF ~installed
          THEN echo([startSh EXCEPT !.pc = "check_uml_files"],
                    "Failed to install dependencies")
          ELSE echo([startSh EXCEPT !.pc = "check_uml_files"],
                    "Dependencies installed successfully")
    /\ UNCHANGED <<port7777, stopSh, page>>

\* install_dependencies, with whether requirements.txt is there and whether
\* pip3 install has succeeded
install_dependencies(requirements, installed) ==
    /\ startSh.pc = "install_dependencies"
    /\ startSh' =
          IF ~requirements THEN exit(echo(startSh, "requirements.txt not found"), 1)
          ELSE IF ~installed THEN exit(echo(startSh, "Failed to install dependencies"), 1)
          ELSE echo([startSh EXCEPT !.pc = "check_uml_files"],
                    "Dependencies installed successfully")
    /\ UNCHANGED <<port7777, stopSh, page>>

\* check_uml_files, with whether the directory of the diagrams is there
check_uml_files(directory) ==
    /\ startSh.pc = "check_uml_files"
    /\ startSh' = echo([startSh EXCEPT !.pc = "start_server"],
                       IF directory THEN "Found UML files" ELSE "UML directory not found")
    /\ UNCHANGED <<port7777, stopSh, page>>

\* start_server up to python3 app.py, which takes the port when it is free
start_server ==
    /\ startSh.pc = "start_server"
    /\ startSh' = echo([startSh EXCEPT !.pc = "python3 app.py"],
                       "Starting Flask server on port 7777")
    /\ port7777' = IF lsof(port7777) = {}
                   THEN [port7777 EXCEPT !["app.py"] = "listening"]
                   ELSE port7777
    /\ UNCHANGED <<stopSh, page>>

\* the statuses python3 app.py can end with: its own, or 128 + the signal
PythonStatuses == {0, 1, 137, 143}

\* python3 app.py has ended, and the script ends with its status
appEnds(status) ==
    /\ startSh.pc = "python3 app.py"
    /\ port7777["app.py"] = "absent"
    /\ startSh' = exit(startSh, status)
    /\ UNCHANGED <<port7777, stopSh, page>>

\* Ctrl+C while the startup script runs: the trap on INT, after the foreground
\* command has ended
startInterrupted ==
    /\ startSh.pc \notin {"idle", "exited"}
    /\ startSh' = exit(echo(startSh, "Startup interrupted by user"), 130)
    /\ port7777' = IF startSh.pc = "python3 app.py"
                   THEN [port7777 EXCEPT !["app.py"] = "absent"]
                   ELSE port7777
    /\ UNCHANGED <<stopSh, page>>

\* a faulty variant of kill_server: the forced kill goes to all the processes
\* found at first
killServerForceAll ==
    /\ stopSh.pc = "sleep 3"
    /\ LET REMAINING == lsof(port7777)
       IN  IF REMAINING # {}
           THEN /\ stopSh' = sending([stopSh EXCEPT !.pc = "sleep 1"], "KILL",
                                     stopSh.PIDS)
                /\ port7777' = kill("KILL", stopSh.PIDS, port7777)
           ELSE /\ stopSh' = [stopSh EXCEPT !.pc = "final check"]
                /\ UNCHANGED port7777
    /\ UNCHANGED <<startSh, page>>

\* a faulty variant of killServerFinalCheck: what is left on the port is
\* reported and the script ends as after a success
killServerAlwaysStopped ==
    /\ stopSh.pc \in {"sleep 1", "final check"}
    /\ LET FINAL_CHECK == lsof(port7777)
       IN  stopSh' =
              IF FINAL_CHECK # {}
              THEN exit(echo(echo(stopSh, "Failed to stop some processes"),
                             "Server shutdown complete"), 0)
              ELSE exit(echo(echo(stopSh, "Server stopped successfully"),
                             "Server shutdown complete"), 0)
    /\ UNCHANGED <<port7777, startSh, page>>

\* main of the stop script up to the sleep after kill -TERM, or to its end when
\* nothing holds the port
kill_server ==
    /\ stopSh.pc = "idle"
    /\ LET PIDS == lsof(port7777)
       IN  IF PIDS # {}
           THEN /\ stopSh' = sending([stopSh EXCEPT !.pc = "sleep 3", !.PIDS = PIDS],
                                     "TERM", PIDS)
                /\ port7777' = kill("TERM", PIDS, port7777)
           ELSE /\ stopSh' = exit(echo(echo(stopSh, "No server processes found"),
                                       "Server shutdown complete"), 0)
                /\ UNCHANGED port7777
    /\ UNCHANGED <<startSh, page>>

\* kill_server after sleep 3: kill -9 of what is still on the port
killServerRemaining ==
    /\ stopSh.pc = "sleep 3"
    /\ LET REMAINING == lsof(port7777)
       IN  IF REMAINING # {}
           THEN /\ stopSh' = sending([stopSh EXCEPT !.pc = "sleep 1"], "KILL",
                                     REMAINING)
                /\ port7777' = kill("KILL", REMAINING, port7777)
           ELSE /\ stopSh' = [stopSh EXCEPT !.pc = "final check"]
                /\ UNCHANGED port7777
    /\ UNCHANGED <<startSh, page>>

\* the final check of kill_server, and the rest of main
killServerFinalCheck ==
    /\ stopSh.pc \in {"sleep 1", "final check"}
    /\ LET FINAL_CHECK == lsof(port7777)
       IN  stopSh' =
              IF FINAL_CHECK # {}
              THEN exit(echo(stopSh, "Failed to stop some processes"), 1)
              ELSE exit(echo(echo(stopSh, "Server stopped successfully"),
                             "Server shutdown complete"), 0)
    /\ UNCHANGED <<port7777, startSh, page>>

\* Ctrl+C while the stop script runs
stopInterrupted ==
    /\ stopSh.pc \notin {"idle", "exited"}
    /\ stopSh' = exit(echo(stopSh, "Stop script interrupted"), 130)
    /\ UNCHANGED <<port7777, startSh, page>>

\* the state before a script is run: the page as before init(), and the port
\* free or held by processes of earlier runs
InitScripts ==
    /\ selectedDiagrams = <<>>
    /\ umlContents = << >>
    /\ loadPc = [k \in Keys |-> IF k \in DiagramIds THEN "fetching" ELSE "idle"]
    /\ fetched = [k \in Keys |-> NotFetched]
    /\ initPc = "loadAllUMLContents"
    /\ requests = <<>>
    /\ visualizationArea = placeholderView
    /\ dataModelVisualizationArea = placeholderView
    /\ justCompleted = <<>>
    /\ healthPc = "fetching"
    /\ serverStatus = initialStatus
    /\ rendererCalls = 0
    /\ apiResult = <<>>
    /\ selectionUI = <<>>
    /\ toggledOdd = {}
    /\ port7777 \in [Procs -> {"absent", "listening"}]
    /\ port7777["app.py"] = "absent"
    /\ startSh = NotStarted
    /\ stopSh = NotStarted

\* the processes on the port
Processes == \E p \in Procs : exits(p) \/ binds(p)

\* the startup script, run once
StartScript ==
    \/ kill_port_7777
    \/ killPortRemaining
    \/ \E python3, pip3 \in BOOLEAN : check_python(python3, pip3)
    \/ \E requirements, installed \in BOOLEAN :
          install_dependencies(requirements, installed)
    \/ \E directory \in BOOLEAN : check_uml_files(directory)
    \/ start_server
    \/ \E status \in PythonStatuses : appEnds(status)
    \/ startInterrupted

\* the stop script, run once
StopScript ==
    \/ kill_server
    \/ killServerRemaining
    \/ killServerFinalCheck
    \/ stopInterrupted

NextStart == Processes \/ StartScript

SpecStart == InitScripts /\ [][NextStart]_vars

NextStop == Processes \/ StopScript

SpecStop == InitScripts /\ [][NextStop]_vars

\* ---------------------------------------------------------------- properties
\* the document createCombinedUML returns in the current state
combinedUML == createCombinedUML(selectedDiagrams, umlContents)

\* the selection without the diagram id
without(selected, id) == SelectSeq(selected, LAMBDA d : d # id)

\* does the diagram id have a body that is not empty once cleaned
contributes(id) ==
    /\ truthy(get(umlContents, id))
    /\ cleanContent(umlContents[id]) # <<>>

\* the display names in the header comments of a document, in their order
RECURSIVE headerNames(_)
headerNames(t) ==
    IF Len(t) < 2 THEN <<>>
    ELSE IF Head(t) = "' === " THEN <<t[2]>> \o headerNames(Tail(t))
         ELSE headerNames(Tail(t))

\* the display names of the contributing diagrams among ids, in the order of ids
RECURSIVE namesOf(_)
namesOf(ids) ==
    IF ids = <<>> THEN <<>>
    ELSE (IF contributes(Head(ids)) THEN <<configOf(Head(ids)).displayName>> ELSE <<>>)
         \o namesOf(Tail(ids))

\* the lines of a text
RECURSIVE linesFrom(_, _)
linesFrom(t, line) ==
    IF t = <<>> THEN {line}
    ELSE IF Head(t) = NL THEN {line} \cup linesFrom(Tail(t), <<>>)
         ELSE linesFrom(Tail(t), Append(line, Head(t)))

Lines(t) == linesFrom(t, <<>>)

\* a line that is an opening marker, a closing marker or a title line as a whole
IsMarkerLine(line) ==
    \/ MatchAt(line, startuml, 1)
    \/ MatchAt(line, enduml, 1)
    \/ MatchAt(line, titleWord, 1)

\* a combined document is in flight to the renderer
CombinedInFlight ==
    \E i \in 1..Len(requests) :
        /\ requests[i].op = "renderUMLDiagram"
        /\ requests[i].uml_content = <<combinedUML>>

\* C1: the document combined from two or more selected diagrams contains exactly
\* one opening marker and exactly one closing marker, whatever the stored bodies
C1_OneMarkerPair ==
    Len(selectedDiagrams) >= 2 =>
        /\ Count(combinedUML, startuml) = 1
        /\ Count(combinedUML, enduml) = 1

\* C2: with exactly one diagram selected, the document visualizeSelectedDiagrams
\* submits to the renderer is what the content map holds for that diagram
C2_SingleUnchanged ==
    [][ ( /\ Len(selectedDiagrams) = 1
          /\ Len(requests') = Len(requests) + 1
          /\ requests'[Len(requests')].op = "renderUMLDiagram" )
        => requests'[Len(requests')].uml_content
              = get(umlContents, selectedDiagrams[1]) ]_vars

C2_Witness ==
    /\ Len(selectedDiagrams) = 1
    /\ Len(requests) = 1
    /\ requests[1].op = "renderUMLDiagram"
    /\ requests[1].uml_content = <<SampleDocument>>
    /\ get(umlContents, selectedDiagrams[1]) = <<SampleDocument>>

C4_OnlyMarkerLinesRemoved ==
    Len(selectedDiagrams) >= 2 =>
        LET combinedLines == Lines(combinedUML)
        IN  \A i \in 1..Len(selectedDiagrams) :
                truthy(get(umlContents, selectedDiagrams[i])) =>
                    \A line \in Lines(umlContents[selectedDiagrams[i]]) :
                        (line # <<>> /\ ~IsMarkerLine(line)) => line \in combinedLines

\* C5: a selected document whose cleaned body is empty has no header in the
\* combined document, and the combined document is the one built without it
C5_EmptyContributesNothing ==
    Len(selectedDiagrams) >= 2 =>
        LET combined == combinedUML
        IN  \A i \in 1..Len(selectedDiagrams) :
                ~contributes(selectedDiagrams[i]) =>
                    /\ ~Contains(combined, domainHeader(configOf(selectedDiagrams[i])))
                    /\ combined = createCombinedUML(
                          without(selectedDiagrams, selectedDiagrams[i]), umlContents)

C5_Witness ==
    /\ Len(selectedDiagrams) = 2
    /\ umlContents["business_support"] = MarkersOnly
    /\ contributes("channels")
    /\ CombinedInFlight
    /\ headerNames(combinedUML) = <<"Channels">>

\* C6: the combined document starts with the opening marker, ends with the closing
\* marker, and holds for each contributing document its header line, then its
\* cleaned body, then a blank line
C6_Structure ==
    Len(selectedDiagrams) >= 2 =>
        LET combined == combinedUML
        IN  /\ MatchAt(combined, startuml, 1)
            /\ MatchAt(combined, enduml, Len(combined) - 1)
            /\ \A i \in 1..Len(selectedDiagrams) :
                  LET cleaned == cleanContent(umlContents[selectedDiagrams[i]])
                  IN  (truthy(get(umlContents, selectedDiagrams[i])) /\ cleaned # <<>>) =>
                         Contains(combined,
                            <<"' === ", configOf(selectedDiagrams[i]).displayName,
                              " Domain ===", NL>> \o cleaned \o <<NL, NL>>)

C6_Witness ==
    /\ selectedDiagrams = <<"business_support", "channels">>
    /\ umlContents["business_support"] = SampleDocument
    /\ umlContents["channels"] = <<"x", NL, "x">>
    /\ CombinedInFlight
    /\ combinedUML = preamble
          \o <<"' === ", "Business Support", " Domain ===", NL, "x", NL, NL>>
          \o <<"' === ", "Channels", " Domain ===", NL, "x", NL, "x", NL, NL>>
          \o enduml

\* the load of the diagrams (of the data models) has completed
umlLoaded == initPc \in {"loadAllDataModelContents", "initialized"}
dataModelsLoaded == initPc = "initialized"

\* the placeholder documents of a key
Placeholders(key) ==
    IF key \in DiagramIds
    THEN {umlLoadFailed(configOf(key))}
         \cup {umlLoadError(configOf(key), m) : m \in FetchErrors}
    ELSE {dataModelLoadFailed(configOf(key))}
         \cup {dataModelLoadError(configOf(key), m) : m \in FetchErrors}

\* the key holds what its own fetch brought: the text read, or a placeholder
HoldsOwnResult(key) ==
    /\ fetched[key].kind = "text" => get(umlContents, key) = <<fetched[key].text>>
    /\ fetched[key].kind \in {"status", "error"} =>
          \E p \in Placeholders(key) : get(umlContents, key) = <<p>>
    /\ fetched[key].kind \in {"text", "status", "error"}

\* C7: once a load has completed, every key whose fetch failed holds a placeholder
\* and every other key holds exactly the text its own fetch returned
C7_FailuresIsolated ==
    /\ umlLoaded => \A key \in DiagramIds : HoldsOwnResult(key)
    /\ dataModelsLoaded => \A key \in DataModelKeys : HoldsOwnResult(key)

C7_Witness ==
    /\ dataModelsLoaded
    /\ fetched["business_support"].kind = "status"
    /\ fetched["channels"].kind = "text"
    /\ umlContents["channels"] = SampleDocument
    /\ umlContents["business_support"] = umlLoadFailed(configOf("business_support"))
    /\ fetched["datamodel_deposits"].kind = "error"

\* C8: once loadAllUMLContents has completed, the content map has an entry for
\* every diagram of the catalogue
C8_NoMissingKey ==
    umlLoaded => \A id \in DiagramIds : id \in DOMAIN umlContents

C8_Witness ==
    /\ umlLoaded
    /\ \A id \in DiagramIds : fetched[id].kind = "status"
    /\ \A id \in DiagramIds : id \in DOMAIN umlContents

\* C9: all fetches of loadAllUMLContents are in flight from the start, the load
\* completes only when every closure has finished, and it never fails
C9_FanOutFanIn ==
    /\ initPc = "loadAllUMLContents" => \A id \in DiagramIds : loadPc[id] # "idle"
    /\ umlLoaded => \A id \in DiagramIds : loadPc[id] = "done"
    /\ initPc # "rejected"

C9_Witness ==
    /\ initPc = "loadAllDataModelContents"
    /\ fetched["business_support"].kind = "error"
    /\ fetched["channels"].kind = "text"
    /\ \A id \in DiagramIds : loadPc[id] = "done"

\* C10: every request in flight to the renderer has a body that is not empty and
\* a format of {png, svg}
C10_RequestWellFormed ==
    \A i \in 1..Len(requests) :
        /\ truthy(requests[i].uml_content)
        /\ requests[i].format \in {"png", "svg"}

\* the message of the lookup that finds no document
notFound == "Data model content not found"

\* C11: once the load of a catalogue id has completed, whatever it stored (a text
\* of any value, the empty text included, or a placeholder), no step makes its
\* area report that the content was not found; the diagram area never does
C11_NotFoundOnlyForUnknown ==
    [][/\ \A k \in DataModelKeys :
             /\ loadPc[k] = "done"
             /\ dataModelVisualizationArea' # dataModelVisualizationArea
             => dataModelVisualizationArea'.message # notFound
       /\ visualizationArea'.message # notFound]_vars

\* C12: a request whose format is outside the supported set is answered with a
\* failure and the external renderer is not invoked for it
C12_UnsupportedFormatFailsFast ==
    [][/\ apiResult' # apiResult
       /\ apiResult'[1].format \notin SupportedFormats
       => /\ apiResult'[1].result.kind = "fail"
          /\ rendererCalls' = rendererCalls]_vars

C12_Witness ==
    /\ apiResult # <<>>
    /\ apiResult[1].format = "pdf"
    /\ apiResult[1].result = unsupportedFormat
    /\ rendererCalls = 2

\* the render operation the last step ended: is there one, of this kind
ended(op) == justCompleted # <<>> /\ justCompleted[1].op = op

\* C13: when the fetch of a display render has not ended with an image, the
\* operation ends Failed and the area shows the error view and no diagram; when
\* it has, the area shows the diagram and no error message
C13_FailureShowsErrorOnly ==
    ended("renderUMLDiagram") =>
        IF justCompleted[1].outcome.kind = "ok"
        THEN /\ justCompleted[1].state = "Succeeded"
             /\ visualizationArea.view = "diagram"
             /\ visualizationArea.message = ""
        ELSE /\ justCompleted[1].state = "Failed"
             /\ visualizationArea.view = "error"
             /\ visualizationArea.umlContent = <<>>

C13_Witness ==
    /\ ended("renderUMLDiagram")
    /\ justCompleted[1].outcome \in RendererFailures
    /\ visualizationArea.view = "error"
    /\ Len(selectedDiagrams) = 2

\* C14: whichever operation it was (display render, data model render, or a
\* download), when the server answered its fetch with a failure the message the
\* operation reports is the renderer's own message if there is one, and
\* otherwise the generic message with the status
C14_FailureCarriesRendererMessage ==
    justCompleted # <<>> /\ justCompleted[1].outcome.kind = "fail" =>
        justCompleted[1].message =
            IF justCompleted[1].outcome.error # ""
            THEN justCompleted[1].outcome.error
            ELSE serverError(justCompleted[1].outcome.status)

\* the content type of an image, per requested format
ImageTypes == [png |-> "image/png", svg |-> "image/svg+xml"]

C16_ExactlyOneCall ==
    [][/\ Len(requests') > Len(requests) =>
             /\ Len(requests') = Len(requests) + 1
             /\ justCompleted' = <<>>
       /\ justCompleted' # <<>> =>
             /\ Len(requests') = Len(requests) - 1
             /\ justCompleted'[1].calls = 1
       /\ \A i \in 1..Len(requests') : requests'[i].calls = 1]_vars

C16_Witness ==
    /\ ended("renderUMLDiagram")
    /\ justCompleted[1].state = "Failed"
    /\ justCompleted[1].calls = 1
    /\ requests = <<>>

\* C17: an operation comes into being in the step that builds its document and
\* submits it (a display render carries the document built from the selection of
\* that step); while its call is in flight it is Submitting; it leaves flight
\* only by ending, as Succeeded when the fetch brought an image and as Failed
\* otherwise; what has ended is not in flight again
C17_Lifecycle ==
    [][/\ \A i \in 1..Len(requests') : requests'[i].state = "Submitting"
       /\ Len(requests') > Len(requests) =>
             /\ SubSeq(requests', 1, Len(requests)) = requests
             /\ requests'[Len(requests')].op = "renderUMLDiagram" =>
                   requests'[Len(requests')].uml_content =
                       umlContent(selectedDiagrams, umlContents)
       /\ Len(requests') < Len(requests) =>
             /\ justCompleted' # <<>>
             /\ justCompleted'[1].state \in {"Succeeded", "Failed"}
             /\ justCompleted'[1].state = "Succeeded" <=>
                   justCompleted'[1].outcome.kind = "ok"
             /\ \E i \in 1..Len(requests) :
                   /\ requests' \in {RemoveAt(requests, i), fetchSettled(requests, i)}
                   /\ requests[i].op = justCompleted'[1].op
       /\ Len(requests') = Len(requests) => requests' = requests]_vars

C17_Witness ==
    /\ ended("renderUMLDiagram")
    /\ justCompleted[1].outcome = fetchRejected
    /\ justCompleted[1].state = "Failed"
    /\ visualizationArea.view = "error"

\* C18: whatever the readiness check has or has not reported, a display render
\* can be started as soon as something is selected, and a render in flight can
\* end with every answer its fetch can bring
C18_ReadinessNeverGates ==
    /\ Len(selectedDiagrams) # 0 /\ Len(requests) < MaxInFlight =>
          ENABLED visualizeSelectedDiagrams
    /\ \A i \in 1..Len(requests) :
          requests[i].op = "renderUMLDiagram" =>
              \A outcome \in answers(requests[i]) : ENABLED renderUMLDiagram(i, outcome)

C18_Witness ==
    /\ healthPc = "fetching"
    /\ Len(requests) = 1
    /\ requests[1].op = "renderUMLDiagram"
    /\ visualizationArea = spinnerView

\* the same with the readiness check failed and with a prerequisite missing
C18_WitnessNotReady ==
    /\ healthPc = "caught" \/ serverStatus = "Java: Not Available"
    /\ ended("renderUMLDiagram")
    /\ justCompleted[1].state = "Succeeded"

selectedSet == {selectedDiagrams[i] : i \in 1..Len(selectedDiagrams)}

\* C21: no id is in the selection twice, and the selection holds exactly the ids
\* toggled an odd number of times since the last clearSelection
C21_SetSemantics ==
    /\ \A i, j \in 1..Len(selectedDiagrams) :
          i # j => selectedDiagrams[i] # selectedDiagrams[j]
    /\ selectedSet = toggledOdd

\* a diagram was selected and rendered, and toggled off again while the call is
\* in flight
C21_Witness ==
    /\ selectedDiagrams = <<>>
    /\ toggledOdd = {}
    /\ visualizationArea = spinnerView
    /\ Len(requests) = 1

\* C22: every step of clearSelection leaves the selection empty, the selected
\* count at 0 and the visualization area at its placeholder
C22_ClearResets ==
    [][clearSelection =>
          /\ selectedDiagrams' = <<>>
          /\ selectionUI' # <<>> /\ selectionUI'[1].selectedCount = 0
          /\ visualizationArea' = placeholderView]_vars

\* cleared while a render of two diagrams is in flight
C22_Witness ==
    /\ selectedDiagrams = <<>>
    /\ selectionUI # <<>> /\ selectionUI[1].selectedCount = 0
    /\ visualizationArea = placeholderView
    /\ Len(requests) = 1
    /\ requests[1].uml_content =
          <<createCombinedUML(<<"business_support", "channels">>, umlContents)>>

\* C26: until the first toggle or clear nothing is selected; from then on the
\* selected count shown is the size of the selection and the Visualize button
\* is disabled exactly when the selection is empty
C26_SelectionUIInSync ==
    IF selectionUI = <<>>
    THEN selectedDiagrams = <<>>
    ELSE /\ selectionUI[1].selectedCount = Len(selectedDiagrams)
         /\ selectionUI[1].visualizeBtnDisabled <=> Len(selectedDiagrams) = 0

\* two diagrams selected and one of them toggled off again
C26_Witness ==
    /\ Len(requests) = 1
    /\ requests[1].uml_content =
          <<createCombinedUML(<<"business_support", "channels">>, umlContents)>>
    /\ selectedDiagrams = <<"channels">>
    /\ selectionUI = <<[selectedCount |-> 1, visualizeBtnDisabled |-> FALSE]>>

\* the orders in which the ids of a set can have been selected
Orderings(ids) ==
    {s \in [1..Cardinality(ids) -> ids] : \A i, j \in DOMAIN s : i # j => s[i] # s[j]}

\* C29: with two or more diagrams selected, createCombinedUML returns the same
\* document for every order in which the same diagrams can have been selected
C29_OrderIndependent ==
    Len(selectedDiagrams) >= 2 =>
        LET combined == combinedUML
        IN  \A s \in Orderings(selectedSet) :
                createCombinedUML(s, umlContents) = combined

\* selected against the order of the catalogue, both documents contributing
\* different sections, and the combined document submitted
C29_Witness ==
    /\ selectedDiagrams = <<"channels", "business_support">>
    /\ contributes("channels") /\ contributes("business_support")
    /\ cleanContent(umlContents["channels"]) # cleanContent(umlContents["business_support"])
    /\ CombinedInFlight

\* C30: the diagram area shows a diagram together with the document of the call
\* that brought it, and a step that puts a downloadAsSVG call in flight submits
\* that document with format svg, whatever is selected by then
C30_DownloadSubmitsDisplayed ==
    [][/\ ended("renderUMLDiagram")' /\ justCompleted'[1].state = "Succeeded" =>
             \E i \in 1..Len(requests) :
                 /\ requests' = fetchSettled(requests, i)
                 /\ visualizationArea' = diagramView(requests[i].uml_content)
       /\ /\ Len(requests') > Len(requests)
          /\ requests'[Len(requests')].op = "downloadAsSVG"
          => /\ visualizationArea.view = "diagram"
             /\ requests'[Len(requests')].uml_content = visualizationArea.umlContent
             /\ requests'[Len(requests')].format = "svg"]_vars

\* a combined diagram is displayed, everything has been toggled off, and its
\* download is in flight
C30_Witness ==
    /\ selectedDiagrams = <<>>
    /\ visualizationArea.view = "diagram"
    /\ Len(requests) = 1
    /\ requests[1].op = "downloadAsSVG"
    /\ requests[1].format = "svg"
    /\ requests[1].uml_content =
          <<createCombinedUML(<<"business_support", "channels">>, umlContents)>>

\* a renderUMLDiagram call is in flight
RenderInFlight == \E i \in 1..Len(requests) : requests[i].op = "renderUMLDiagram"

\* C25: the waiting indicator is displayed for as long as a renderUMLDiagram call
\* is in flight, and it is not displayed when none is
C25_IndicatorWhileInFlight ==
    /\ RenderInFlight => visualizationArea = spinnerView
    /\ visualizationArea = spinnerView => RenderInFlight

\* C28: the diagram area leaves the placeholder, where clearSelection has put it,
\* by a step of visualizeSelectedDiagrams only
C28_PlaceholderUntilVisualize ==
    [][visualizationArea = placeholderView /\ visualizationArea' # placeholderView
           => visualizeSelectedDiagrams]_vars

\* C27: a renderUMLDiagram response that arrives after the response of a call
\* issued later than its own leaves the result that is displayed as it is
C27_LaterIssuedWins ==
    [][\A i \in 1..Len(requests) :
          /\ requests[i].op = "renderUMLDiagram" /\ requests[i].overtaken
          /\ visualizationArea.view \in {"diagram", "error"}
          /\ ended("renderUMLDiagram")' /\ requests' = fetchSettled(requests, i)
          => visualizationArea' = visualizationArea]_vars

\* the messages of a script, as a set
said(sh) == {sh.out[i] : i \in 1..Len(sh.out)}

\* the startup script has reached python3 app.py
Started(sh) == "Starting Flask server on port 7777" \in said(sh)

\* the messages with which the startup script gives up
StartFailures ==
    {"Failed to kill some processes", "Python3 not found", "pip3 not found",
     "requirements.txt not found", "Failed to install dependencies"}

\* the port was found free, python3 and pip3 were found, the dependencies were
\* installed and the server was started, in this order
InStartupOrder(sh) ==
    \E i, j, k, l \in 1..Len(sh.out) :
        /\ i < j /\ j < k /\ k < l
        /\ sh.out[i] \in {"No existing processes found on port 7777",
                          "Successfully killed existing processes"}
        /\ sh.out[j] = "pip3 is available"
        /\ sh.out[k] = "Dependencies installed successfully"
        /\ sh.out[l] = "Starting Flask server on port 7777"

\* C23: the startup script goes on from the port cleanup only with nothing on
\* port 7777, starts the server only after cleanup, Python check and dependency
\* installation have succeeded in this order, and when a process is left on the
\* port after the kill or a check has failed it exits with status 1 and has
\* not started the server
C23_StartOnlyAfterChecks ==
    [][/\ startSh.pc \in {"idle", "sleep 2"} /\ startSh'.pc = "check_python"
             => lsof(port7777) = {}
       /\ /\ startSh.pc = "sleep 2" /\ startSh'.pc # "sleep 2"
          /\ lsof(port7777) # {} /\ startSh'.status # 130
          => "Failed to kill some processes" \in said(startSh')
       /\ Started(startSh') => InStartupOrder(startSh')
       /\ said(startSh') \cap StartFailures # {}
             => /\ startSh'.pc = "exited" /\ startSh'.status = 1
                /\ ~Started(startSh')
                /\ port7777'["app.py"] = "absent"]_vars

\* a process of an earlier run was killed, the checks have passed, and the
\* server of this run holds the port
C23_Witness ==
    /\ startSh.pc = "python3 app.py"
    /\ startSh.PIDS = {"previous"}
    /\ startSh.sent = <<[signal |-> "KILL", to |-> {"previous"}]>>
    /\ InStartupOrder(startSh)
    /\ port7777 = [p \in Procs |-> IF p = "app.py" THEN "listening" ELSE "absent"]

\* a process has outlived the kill and the startup script has given up
C23_WitnessExit ==
    /\ startSh.pc = "exited" /\ startSh.status = 1
    /\ "Failed to kill some processes" \in said(startSh)
    /\ port7777["previous"] = "KILL"

\* C24: the stop script sends SIGTERM first, to the processes it has found on
\* port 7777; it sends SIGKILL after that, once, and to the processes that are
\* on the port after the wait; it reports success only from a step at which
\* nothing is on the port; and when something is on the port at the final
\* check it exits with status 1
C24_GracefulThenForced ==
    [][/\ Len(stopSh'.sent) >= 1
             => stopSh'.sent[1] = [signal |-> "TERM", to |-> stopSh'.PIDS]
       /\ Len(stopSh'.sent) <= 2
       /\ Len(stopSh'.sent) = 2 /\ Len(stopSh.sent) = 1
             => /\ stopSh.pc = "sleep 3"
                /\ stopSh'.sent[2] = [signal |-> "KILL", to |-> lsof(port7777)]
       /\ /\ "Server stopped successfully" \in said(stopSh')
          /\ "Server stopped successfully" \notin said(stopSh)
          => lsof(port7777) = {} /\ stopSh'.status = 0
       /\ /\ stopSh.pc \in {"sleep 1", "final check"} /\ stopSh'.pc = "exited"
          /\ lsof(port7777) # {} /\ stopSh'.status # 130
          => /\ stopSh'.status = 1
             /\ "Server stopped successfully" \notin said(stopSh')]_vars

\* of two processes found on the port one has ended on SIGTERM, the other one
\* was sent SIGKILL and has outlived it, and the stop script has exited with 1
C24_Witness ==
    /\ stopSh.pc = "exited" /\ stopSh.status = 1
    /\ stopSh.PIDS = {"previous", "other"}
    /\ stopSh.sent = <<[signal |-> "TERM", to |-> {"previous", "other"}],
                       [signal |-> "KILL", to |-> {"other"}]>>
    /\ port7777["other"] = "KILL"

====
